---- MODULE Spec2Model ----
(***************************************************************************)
(* Maze solver of project.py: the Maze class (construction, in_bounds,     *)
(* passable, neighbors), the two searches bfs and dfs, and                 *)
(* reconstruct_path.  Cells are pairs <<r, c>> counted from 0 as in the    *)
(* source; grid[r + 1][c + 1] is the source's grid[r][c].                  *)
(***************************************************************************)
EXTENDS Integers, Sequences, FiniteSets, TLC

\* ---- bounds of the model ------------------------------------------------
\* mazes handed to the searches: at most MaxRows x MaxCols, MaxCells cells
MaxRows == 3
MaxCols == 3
MaxCells == 9
\* mazes of the runs checked for termination: at most LiveMaxCells cells
LiveMaxCells == 7
\* grids handed to the constructor alone (ragged and ill-formed included)
GMaxRows == 3
GMaxLen == 3
GMaxSyms == 5
\* cells of the predecessor maps handed to reconstruct_path alone
RecCells == 3

\* cap of the backward walk of reconstruct_path, above every rows * cols
WalkCap == MaxCells + 2

VARIABLES grid, rows, cols, start, goal, pc, err, algo, frontier, visited,
          came_from, explored_order, cur, path, result, qcell, nbs, probed

vars == <<grid, rows, cols, start, goal, pc, err, algo, frontier, visited,
          came_from, explored_order, cur, path, result, qcell, nbs, probed>>

mazeVars == <<grid, rows, cols, start, goal>>
searchVars == <<frontier, visited, came_from, explored_order>>
reconVars == <<cur, path, result>>
queryVars == <<qcell, nbs, probed>>

\* Python's None; also the "no path" result
None == <<>>

Symbols == {"#", ".", "S", "G"}

EmptyMap == [x \in {} |-> None]

\* ---- input grids --------------------------------------------------------
CellsOf(r, c) == {<<i, j>> : i \in 0..(r - 1), j \in 0..(c - 1)}

MkGrid(r, c, s, g, W) ==
    [i \in 1..r |-> [j \in 1..c |->
        IF <<i - 1, j - 1>> = s THEN "S"
        ELSE IF <<i - 1, j - 1>> = g THEN "G"
        ELSE IF <<i - 1, j - 1>> \in W THEN "#"
        ELSE "."]]

Shapes == {sh \in (1..MaxRows) \X (1..MaxCols) : sh[1] * sh[2] <= MaxCells}

RECURSIVE SumTo(_, _)
SumTo(lens, n) == IF n = 0 THEN 0 ELSE lens[n] + SumTo(lens, n - 1)

\* the grid whose row i has lens[i] symbols, read off content in row order
MkRagged(lens, content) ==
    [i \in 1..Len(lens) |-> [j \in 1..lens[i] |->
        content[SumTo(lens, i - 1) + j]]]

LenVectors ==
    {lens \in UNION {[1..n -> 0..GMaxLen] : n \in 0..GMaxRows} :
        SumTo(lens, Len(lens)) <= GMaxSyms}

\* ---- Maze ---------------------------------------------------------------
LexLeq(p, q) == p[1] < q[1] \/ (p[1] = q[1] /\ p[2] <= q[2])

\* the last cell of the row-major scan over range(rows) x range(cols)
\* holding sym, or None (lines 45-53)
ScanLast(g, r, c, sym) ==
    LET hits == {p \in CellsOf(r, c) : g[p[1] + 1][p[2] + 1] = sym}
    IN  IF hits = {} THEN None
        ELSE CHOOSE p \in hits : \A q \in hits : LexLeq(q, p)

in_bounds(pos) == 0 <= pos[1] /\ pos[1] < rows /\ 0 <= pos[2] /\ pos[2] < cols

passable(pos) == grid[pos[1] + 1][pos[2] + 1] # "#"

\* fault: the direction list without its last entry
directions_NoRight == <<<<-1, 0>>, <<1, 0>>, <<0, -1>>>>

directions == <<<<-1, 0>>, <<1, 0>>, <<0, -1>>, <<0, 1>>>>

Step4(pos, i) == <<pos[1] + directions[i][1], pos[2] + directions[i][2]>>

\* whether passable is evaluated on the candidate np: the right operand of
\* the "and" of line 72 runs only when the left one is true
PassableEvaluated(np) == in_bounds(np)

\* fault: the passable test left out of line 72
Yielded_NoWallTest(np) == in_bounds(np)

\* the condition of line 72
Yielded(np) == in_bounds(np) /\ passable(np)

neighbors(pos) ==
    SelectSeq([i \in 1..Len(directions) |-> Step4(pos, i)], Yielded)

\* the cells on which one run of neighbors(pos) evaluates passable
Probes(pos) ==
    {np \in {Step4(pos, i) : i \in 1..Len(directions)} : PassableEvaluated(np)}

\* ---- search helpers -----------------------------------------------------
\* fault: bfs taking the newest entry instead of the oldest
popleft_FromRight(q) == [cell |-> q[Len(q)], rest |-> SubSeq(q, 1, Len(q) - 1)]

\* deque.popleft()
popleft(q) == [cell |-> Head(q), rest |-> Tail(q)]

\* list.pop()
pop(q) == [cell |-> q[Len(q)], rest |-> SubSeq(q, 1, Len(q) - 1)]

\* fault: the break of line 102 left out
AtGoal_Never(c, g) == FALSE

\* the test "cur == goal" that breaks the loop
AtGoal(c, g) == c = g

\* fault: the visited test of line 105 left out
Unvisited_Always(nb, vis) == TRUE

\* the test "nb not in visited"
Unvisited(nb, vis) == nb \notin vis

\* fault: came_from[cur] = nb
Put_Swapped(cf, nb, c) ==
    [k \in (DOMAIN cf) \cup {c} |-> IF k = c THEN nb ELSE cf[k]]

\* came_from[nb] = c
Put(cf, nb, c) == [k \in (DOMAIN cf) \cup {nb} |-> IF k = nb THEN c ELSE cf[k]]

\* the for loop over maze.neighbors(cur), from its i-th neighbor on
RECURSIVE Expand(_, _, _, _)
Expand(nbseq, c, i, st) ==
    IF i > Len(nbseq) THEN st
    ELSE IF Unvisited(nbseq[i], st.visited)
         THEN Expand(nbseq, c, i + 1,
                     [visited   |-> st.visited \cup {nbseq[i]},
                      frontier  |-> Append(st.frontier, nbseq[i]),
                      came_from |-> Put(st.came_from, nbseq[i], c)])
         ELSE Expand(nbseq, c, i + 1, st)

\* fault: the path left in goal-to-start order
Reverse_Not(s) == s

\* path.reverse()
Reverse(s) == [i \in 1..Len(s) |-> s[Len(s) + 1 - i]]

\* fault: the walk not following the predecessor link
StepBack_Stay(cf, c) == c

\* cur = came_from[cur]
StepBack(cf, c) == cf[c]

\* ---- initial states -----------------------------------------------------
InitRest ==
    /\ rows = 0 /\ cols = 0 /\ start = None /\ goal = None
    /\ err = "none"
    /\ algo = "none"
    /\ frontier = <<>> /\ visited = {} /\ came_from = EmptyMap
    /\ explored_order = <<>>
    /\ cur = None /\ path = <<>> /\ result = None
    /\ qcell = None /\ nbs = <<>> /\ probed = {}

\* a valid maze text (rectangular, exactly one S, exactly one G), before
\* Maze(grid)
Init ==
    /\ \E sh \in Shapes :
         \E s \in CellsOf(sh[1], sh[2]) :
            \E g \in CellsOf(sh[1], sh[2]) \ {s} :
               \E W \in SUBSET (CellsOf(sh[1], sh[2]) \ {s, g}) :
                  grid = MkGrid(sh[1], sh[2], s, g, W)
    /\ pc = "new"
    /\ InitRest

\* the valid mazes of at most LiveMaxCells cells, before Maze(grid)
InitLive ==
    /\ \E sh \in {x \in Shapes : x[1] * x[2] <= LiveMaxCells} :
         \E s \in CellsOf(sh[1], sh[2]) :
            \E g \in CellsOf(sh[1], sh[2]) \ {s} :
               \E W \in SUBSET (CellsOf(sh[1], sh[2]) \ {s, g}) :
                  grid = MkGrid(sh[1], sh[2], s, g, W)
    /\ pc = "new"
    /\ InitRest

\* any list of strings over the four symbols, before Maze(grid)
InitMaze ==
    /\ \E lens \in LenVectors :
         \E content \in [1..SumTo(lens, Len(lens)) -> Symbols] :
            grid = MkRagged(lens, content)
    /\ pc = "new"
    /\ InitRest

\* reconstruct_path(came_from, start, goal) called on any predecessor map
\* over the cells of a 1 x RecCells maze
InitRecon ==
    /\ grid = <<>> /\ rows = 1 /\ cols = RecCells
    /\ start \in CellsOf(1, RecCells) /\ goal \in CellsOf(1, RecCells)
    /\ \E D \in SUBSET CellsOf(1, RecCells) :
          came_from \in [D -> CellsOf(1, RecCells) \cup {None}]
    /\ pc = "return" /\ err = "none" /\ algo = "none"
    /\ frontier = <<>> /\ visited = {} /\ explored_order = <<>>
    /\ cur = None /\ path = <<>> /\ result = None
    /\ qcell = None /\ nbs = <<>> /\ probed = {}

\* ---- Maze.__init__ ------------------------------------------------------
Construct ==
    /\ pc = "new"
    /\ LET r == Len(grid)
           c == IF r > 0 THEN Len(grid[1]) ELSE 0
           s == ScanLast(grid, r, c, "S")
           g == ScanLast(grid, r, c, "G")
       IN  IF \E i \in 1..r : Len(grid[i]) < c
           THEN \* grid[r][c] of line 50 is out of range
                /\ pc' = "error" /\ err' = "IndexError"
                /\ UNCHANGED <<rows, cols, start, goal>>
           ELSE IF s = None \/ g = None
           THEN /\ pc' = "error" /\ err' = "ValueError"
                /\ UNCHANGED <<rows, cols, start, goal>>
           ELSE /\ pc' = "ready" /\ err' = err
                /\ rows' = r /\ cols' = c /\ start' = s /\ goal' = g
    /\ UNCHANGED <<grid, algo, searchVars, reconVars, queryVars>>

\* ---- Maze.neighbors, called on any cell ---------------------------------
QueryCells == {<<r, c>> : r \in (-1)..rows, c \in (-1)..cols}

Query ==
    /\ pc = "ready"
    /\ \E cell \in QueryCells :
          /\ qcell' = cell
          /\ nbs' = neighbors(cell)
          /\ probed' = Probes(cell)
    /\ UNCHANGED <<mazeVars, pc, err, algo, searchVars, reconVars>>

\* ---- bfs and dfs --------------------------------------------------------
SearchCall(a) ==
    /\ pc = "ready"
    /\ algo' = a
    /\ frontier' = <<start>>
    /\ visited' = {start}
    /\ came_from' = Put(EmptyMap, start, None)
    /\ explored_order' = <<>>
    /\ pc' = "loop"
    /\ UNCHANGED <<mazeVars, err, reconVars, queryVars>>

BfsCall == SearchCall("bfs")

DfsCall == SearchCall("dfs")

\* one iteration of the while loop, taking rm off the frontier
Iterate(rm) ==
    /\ explored_order' = Append(explored_order, rm.cell)
    /\ IF AtGoal(rm.cell, goal)
       THEN /\ frontier' = rm.rest
            /\ UNCHANGED <<visited, came_from>>
            /\ pc' = "return"
       ELSE LET st == Expand(neighbors(rm.cell), rm.cell, 1,
                             [visited   |-> visited,
                              frontier  |-> rm.rest,
                              came_from |-> came_from])
            IN  /\ frontier' = st.frontier
                /\ visited' = st.visited
                /\ came_from' = st.came_from
                /\ pc' = "loop"
    /\ UNCHANGED <<mazeVars, err, algo, reconVars, queryVars>>

BfsIter ==
    /\ pc = "loop" /\ algo = "bfs" /\ frontier # <<>>
    /\ Iterate(popleft(frontier))

DfsIter ==
    /\ pc = "loop" /\ algo = "dfs" /\ frontier # <<>>
    /\ Iterate(pop(frontier))

\* the while test fails: the frontier is empty
LoopExit ==
    /\ pc = "loop" /\ frontier = <<>>
    /\ pc' = "return"
    /\ UNCHANGED <<mazeVars, err, algo, searchVars, reconVars, queryVars>>

\* ---- reconstruct_path ---------------------------------------------------
ReconCall ==
    /\ pc = "return"
    /\ IF goal \notin DOMAIN came_from
       THEN /\ result' = None /\ pc' = "done"
            /\ UNCHANGED <<cur, path>>
       ELSE /\ cur' = goal /\ path' = <<goal>> /\ pc' = "walk"
            /\ UNCHANGED result
    /\ UNCHANGED <<mazeVars, err, algo, searchVars, queryVars>>

ReconStep ==
    /\ pc = "walk" /\ cur # start
    /\ Len(path) <= WalkCap
    /\ IF cur \notin DOMAIN came_from
       THEN \* came_from[cur] raises KeyError
            /\ pc' = "error" /\ err' = "KeyError"
            /\ UNCHANGED <<cur, path>>
       ELSE /\ cur' = StepBack(came_from, cur)
            /\ path' = Append(path, StepBack(came_from, cur))
            /\ UNCHANGED <<pc, err>>
    /\ UNCHANGED <<mazeVars, algo, searchVars, result, queryVars>>

ReconReturn ==
    /\ pc = "walk" /\ cur = start
    /\ result' = Reverse(path)
    /\ pc' = "done"
    /\ UNCHANGED <<mazeVars, err, algo, searchVars, cur, path, queryVars>>

\* ---- specifications -----------------------------------------------------
Next ==
    \/ Construct
    \/ BfsCall
    \/ DfsCall
    \/ BfsIter
    \/ DfsIter
    \/ LoopExit
    \/ ReconCall
    \/ ReconStep
    \/ ReconReturn

\* the program on valid mazes: Maze(grid), then bfs or dfs
Spec == Init /\ [][Next]_vars

\* the same on the smaller mazes; a single-threaded run keeps taking its
\* next step until the call returns
FairSpec == InitLive /\ [][Next]_vars /\ WF_vars(Next)

NextMaze == Construct \/ Query

\* the Maze class alone, on any grid
SpecMaze == InitMaze /\ [][NextMaze]_vars

NextRecon == ReconCall \/ ReconStep \/ ReconReturn

\* reconstruct_path alone, on any predecessor map
SpecRecon == InitRecon /\ [][NextRecon]_vars

\* ---- vocabulary of the properties ---------------------------------------
Range(s) == {s[i] : i \in 1..Len(s)}

NoDup(s) == \A i, j \in 1..Len(s) : i # j => s[i] # s[j]

\* the two cells differ by exactly 1 in exactly one coordinate
Adjacent(a, b) ==
    \/ a[1] = b[1] /\ (a[2] - b[2] = 1 \/ b[2] - a[2] = 1)
    \/ a[2] = b[2] /\ (a[1] - b[1] = 1 \/ b[1] - a[1] = 1)

\* the in-bounds cells that are not walls
Open == {p \in CellsOf(rows, cols) : grid[p[1] + 1][p[2] + 1] # "#"}

Grow(S) == S \cup {q \in Open : \E p \in S : Adjacent(p, q)}

RECURSIVE Closure(_)
Closure(S) == IF Grow(S) = S THEN S ELSE Closure(Grow(S))

\* the cells reachable from start through 4-adjacent passable cells
Component == Closure({start})

RECURSIVE DistFrom(_, _, _)
DistFrom(S, t, d) ==
    IF t \in S THEN d
    ELSE IF Grow(S) = S THEN -1
    ELSE DistFrom(Grow(S), t, d + 1)

\* the least number of moves from start to goal, -1 when there is none
Distance == DistFrom({start}, goal, 0)

Searching == pc \in {"loop", "return", "walk", "done"}

\* up, down, left, right: 1, 2, 3, 4
DirRank(a, b) ==
    IF b[1] = a[1] - 1 THEN 1
    ELSE IF b[1] = a[1] + 1 THEN 2
    ELSE IF b[2] = a[2] - 1 THEN 3
    ELSE 4

RECURSIVE ChainReaches(_, _)
ChainReaches(c, seen) ==
    IF c = start THEN TRUE
    ELSE IF c \notin DOMAIN came_from \/ c \in seen THEN FALSE
    ELSE ChainReaches(came_from[c], seen \cup {c})

CountOf(g, sym) ==
    Cardinality({p \in {<<i, j>> : i \in 1..Len(g), j \in 1..(GMaxLen + 1)} :
                    p[2] <= Len(g[p[1]]) /\ g[p[1]][p[2]] = sym})

\* non-empty, rectangular, exactly one S and exactly one G
WellFormed(g) ==
    /\ Len(g) > 0
    /\ \A i \in 1..Len(g) : Len(g[i]) = Len(g[1])
    /\ CountOf(g, "S") = 1
    /\ CountOf(g, "G") = 1

\* ---- claims -------------------------------------------------------------

\* C1: a path returned by bfs has as many cells as the shortest-path
\* distance from start to goal plus one; no start-to-goal sequence of
\* 4-adjacent passable cells is shorter.
C1_BfsShortest ==
    (pc = "done" /\ algo = "bfs" /\ result # None)
        => Len(result) = Distance + 1

C1_Witness ==
    /\ pc = "done" /\ algo = "bfs" /\ result # None
    /\ Len(result) = 5
    /\ Cardinality(Open) >= 7

\* C2: a path returned by bfs or dfs begins with start, ends with goal,
\* holds only in-bounds cells that are not walls, and each two consecutive
\* cells differ by exactly 1 in exactly one coordinate.
C2_PathWellFormed ==
    (pc = "done" /\ result # None)
        => /\ result[1] = start
           /\ result[Len(result)] = goal
           /\ \A i \in 1..Len(result) : result[i] \in Open
           /\ \A i \in 1..(Len(result) - 1) : Adjacent(result[i], result[i + 1])

C2_Witness ==
    /\ pc = "done" /\ algo = "dfs" /\ result # None
    /\ Len(result) > Distance + 1
    /\ Open # CellsOf(rows, cols)

\* C3: at every step of either search and at return, explored_order holds
\* no cell twice and has at most rows * cols entries.
C3_TraceNoDup ==
    /\ NoDup(explored_order)
    /\ Len(explored_order) <= rows * cols

C3_Witness ==
    /\ pc = "loop"
    /\ Len(explored_order) >= 4
    /\ \E p \in Range(explored_order) :
          Cardinality({q \in Range(explored_order) : Adjacent(p, q)}) >= 2

\* C4: no error is raised; when the goal is not reachable from start the
\* search returns None with a non-empty trace whose cells are exactly the
\* cells reachable from start, and when it is reachable the path is not None.
C4_Unreachable ==
    /\ pc # "error"
    /\ pc = "done" =>
          IF goal \notin Component
          THEN /\ result = None
               /\ explored_order # <<>>
               /\ Range(explored_order) = Component
          ELSE result # None

C4_Witness ==
    /\ pc = "done" /\ goal \notin Component
    /\ Cardinality(Component) >= 3
    /\ Cardinality(Open \ Component) >= 2

\* C5: Maze construction fails for every grid that is empty, ragged, or
\* without exactly one S and exactly one G; a constructed Maze has exactly
\* one start and one goal.
C5_ConstructionRejects ==
    /\ (pc # "new" /\ ~WellFormed(grid)) => pc = "error"
    /\ pc = "ready" => (CountOf(grid, "S") = 1 /\ CountOf(grid, "G") = 1)

\* C6: both searches terminate: the loop removes at most rows * cols cells,
\* the backward walk has at most rows * cols cells, and the call returns.
C6_Terminates ==
    /\ <>(pc = "done")
    /\ [](Len(explored_order) <= rows * cols)
    /\ [](pc = "walk" => Len(path) <= rows * cols)

C6_Witness ==
    /\ pc = "done" /\ result # None
    /\ Len(explored_order) = rows * cols
    /\ Len(result) >= 4
    /\ rows * cols >= 6

\* C7: reconstruct_path on any predecessor map returns None when goal is no
\* key; otherwise it returns the reversed predecessor chain from start to
\* goal, or fails once the backward walk has taken rows * cols steps: the
\* walk never takes more steps than that.
C7_WalkBounded ==
    /\ pc = "walk" => Len(path) - 1 <= rows * cols
    /\ (pc = "done" /\ goal \notin DOMAIN came_from) => result = None
    /\ (pc = "done" /\ goal \in DOMAIN came_from)
          => /\ result[1] = start
             /\ result[Len(result)] = goal
             /\ \A i \in 1..(Len(result) - 1) :
                   came_from[result[i + 1]] = result[i]

\* C8: neighbors(cell) yields exactly the 4-adjacent cells that are in
\* bounds and not walls, each once, in the order up, down, left, right, and
\* evaluates passable on in-bounds cells only; the sequence is a function of
\* the grid and the cell, so asking again yields it again.
C8_Neighbors ==
    (pc = "ready" /\ qcell # None)
        => /\ \A i \in 1..Len(nbs) : nbs[i] \in Open /\ Adjacent(qcell, nbs[i])
           /\ \A p \in Open : Adjacent(qcell, p)
                 => Cardinality({i \in 1..Len(nbs) : nbs[i] = p}) = 1
           /\ \A i, j \in 1..Len(nbs) :
                 i < j => DirRank(qcell, nbs[i]) < DirRank(qcell, nbs[j])
           /\ probed \subseteq CellsOf(rows, cols)

C8_Witness ==
    /\ pc = "ready" /\ qcell \in CellsOf(rows, cols)
    /\ Len(nbs) = 1
    /\ Cardinality(probed) = 2

\* C9: the loop stops in the step that removes the goal: the goal is the
\* last entry of the trace and nowhere earlier, nothing is removed after it,
\* no cell has the goal as its predecessor, and a reachable goal is in the
\* returned trace.
C9_StopsAtGoal ==
    /\ [](/\ goal \in Range(explored_order)
             => /\ explored_order[Len(explored_order)] = goal
                /\ \A i \in 1..(Len(explored_order) - 1) : explored_order[i] # goal
                /\ pc # "loop"
          /\ \A k \in DOMAIN came_from : came_from[k] # goal
          /\ (pc = "done" /\ goal \in Component) => goal \in Range(explored_order))
    /\ [][(goal \in Range(explored_order)) => (explored_order' = explored_order)]_vars

C9_Witness ==
    /\ pc = "done" /\ result # None
    /\ \E p \in Open : Adjacent(goal, p) /\ p \notin visited
    /\ frontier # <<>>

\* C10: at every loop iteration boundary the keys of came_from are the
\* visited set, which is the disjoint union of the trace and the frontier
\* (no cell twice in the frontier); came_from[start] is None and every other
\* key maps to a 4-adjacent passable cell already in the trace, so each
\* predecessor chain reaches start without repeating a cell.
C10_LoopInvariant ==
    Searching
        => /\ DOMAIN came_from = visited
           /\ visited = Range(explored_order) \cup Range(frontier)
           /\ Range(explored_order) \cap Range(frontier) = {}
           /\ NoDup(frontier)
           /\ came_from[start] = None
           /\ \A k \in visited \ {start} :
                 /\ came_from[k] \in Open
                 /\ Adjacent(k, came_from[k])
                 /\ came_from[k] \in Range(explored_order)
           /\ \A k \in visited : ChainReaches(k, {})

C10_Witness ==
    /\ pc = "loop"
    /\ Len(frontier) >= 2
    /\ Len(explored_order) >= 3
    /\ \E k \in visited : came_from[k] # None /\ came_from[k] # start

====
